---- MODULE Spec2Model ----
(***************************************************************************)
(* Model of solve.js: reconstruction of f(0) by Lagrange interpolation     *)
(* over exact rationals (BigInt numerator / denominator).                  *)
(*                                                                         *)
(* Characters are modelled by their UTF-16 code (48 is '0', 97 is 'a',     *)
(* 65 is 'A', 32 is ' ', 9 is a tab, 35 is '#'); a string is a sequence of *)
(* codes.  A call either returns or throws; both are records with a        *)
(* `kind` field.  JavaScript indices are 0-based, sequences here are       *)
(* 1-based: the loop counters i and j of the model hold the JavaScript     *)
(* values and index the sequence at i + 1 and j + 1.                       *)
(***************************************************************************)
EXTENDS Integers, Sequences, FiniteSets

VARIABLES
    pc,        \* where main (or a direct call) stands
    obj,       \* main: the parsed JSON input, or Empty
    points,    \* the point list handed to reconstructAtZero
    k,         \* the threshold
    outcome,   \* what the last call returned or threw, or None
    stdout,    \* main: lines printed with console.log
    stderr,    \* main: lines printed with console.error
    P, i, j, num, den, sum,   \* reconstructAtZero's locals
    fa, fb, fr,               \* Fraction objects: this, other, the new one
    str, base,                \* parseInBase's arguments
    f                         \* the polynomial the points were sampled from
                              \* (coefficients, constant term first), or <<>>

vars == <<pc, obj, points, k, outcome, stdout, stderr,
          P, i, j, num, den, sum, fa, fb, fr, str, base, f>>

None == [kind |-> "none"]
Empty == [kind |-> "empty"]
Return(v) == [kind |-> "return", value |-> v]
Throw(e) == [kind |-> "throw", error |-> e]

(* The variables a specification does not use stay at these values *)
MainIdle == obj = Empty /\ stdout = <<>> /\ stderr = <<>>
LoopIdle == P = <<>> /\ i = 0 /\ j = 0 /\ num = 1 /\ den = 1 /\ sum = None
FracIdle == fa = None /\ fb = None /\ fr = None
ParseIdle == str = <<>> /\ base = 10

-----------------------------------------------------------------------------
(* BigInt arithmetic: / truncates toward zero, % takes the dividend's sign *)

Abs(x) == IF x < 0 THEN -x ELSE x

BigDiv(a, b) ==
    LET q == Abs(a) \div Abs(b)
    IN IF (a < 0) = (b < 0) THEN q ELSE -q

BigRem(a, b) == a - b * BigDiv(a, b)

RECURSIVE GcdLoop(_, _)
GcdLoop(a, b) == IF b # 0 THEN GcdLoop(b, BigRem(a, b)) ELSE a

bigGcd(a, b) == GcdLoop(IF a < 0 THEN -a ELSE a, IF b < 0 THEN -b ELSE b)

-----------------------------------------------------------------------------
(* class Fraction *)

(* Variant: the sign of the denominator is not normalized *)
FractionKeepSign(n, d) ==
    IF d = 0 THEN Throw("Zero denominator")
    ELSE LET g == bigGcd(n, d)
         IN [kind |-> "Fraction", n |-> BigDiv(n, g), d |-> BigDiv(d, g)]

Fraction(n, d) ==
    IF d = 0 THEN Throw("Zero denominator")
    ELSE LET n1 == IF d < 0 THEN -n ELSE n
             d1 == IF d < 0 THEN -d ELSE d
             g == bigGcd(n1, d1)
         IN [kind |-> "Fraction", n |-> BigDiv(n1, g), d |-> BigDiv(d1, g)]

fromBigInt(x) == Fraction(x, 1)

add(this, other) ==
    Fraction(this.n * other.d + other.n * this.d, this.d * other.d)

mul(this, other) ==
    Fraction(this.n * other.n, this.d * other.d)

(* Variant: the quotient is returned without the remainder test *)
toBigIntTruncating(this) == Return(BigDiv(this.n, this.d))

toBigIntExact(this) ==
    IF BigRem(this.n, this.d) # 0 THEN Throw("Non-integer result")
    ELSE Return(BigDiv(this.n, this.d))

-----------------------------------------------------------------------------
(* parseInBase *)

IsWhiteSpace(ch) == ch \in {9, 10, 11, 12, 13, 32, 160}

RECURSIVE TrimStart(_)
TrimStart(s) ==
    IF s # <<>> /\ IsWhiteSpace(Head(s)) THEN TrimStart(Tail(s)) ELSE s

RECURSIVE TrimEnd(_)
TrimEnd(s) ==
    IF s # <<>> /\ IsWhiteSpace(s[Len(s)])
    THEN TrimEnd(SubSeq(s, 1, Len(s) - 1)) ELSE s

trim(s) == TrimEnd(TrimStart(s))

(* toLowerCase on ASCII: 'A'..'Z' become 'a'..'z' *)
toLowerCase(s) ==
    [p \in 1..Len(s) |-> IF s[p] >= 65 /\ s[p] <= 90 THEN s[p] + 32 ELSE s[p]]

(* Variant: a letter is valued from 0, not from 10 *)
DigitOfLetterFromZero(ch, b) ==
    IF ch >= 48 /\ ch <= 57 THEN
        IF ch - 48 >= b THEN Throw("Digit out of range") ELSE Return(ch - 48)
    ELSE IF ch >= 97 /\ ch <= 122 THEN
        IF ch - 97 >= b THEN Throw("Digit out of range") ELSE Return(ch - 97)
    ELSE IF ch = 32 THEN [kind |-> "continue"]
    ELSE Throw("Invalid digit")

(* Variant: a digit equal to the base is accepted *)
DigitOfUpToBase(ch, b) ==
    IF ch >= 48 /\ ch <= 57 THEN
        IF ch - 48 > b THEN Throw("Digit out of range") ELSE Return(ch - 48)
    ELSE IF ch >= 97 /\ ch <= 122 THEN
        IF 10 + ch - 97 > b THEN Throw("Digit out of range")
        ELSE Return(10 + ch - 97)
    ELSE IF ch = 32 THEN [kind |-> "continue"]
    ELSE Throw("Invalid digit")

(* One character of the loop: the digit it stands for, "continue" for a    *)
(* space, or the error thrown.                                             *)
DigitOf(ch, b) ==
    IF ch >= 48 /\ ch <= 57 THEN
        IF ch - 48 >= b THEN Throw("Digit out of range") ELSE Return(ch - 48)
    ELSE IF ch >= 97 /\ ch <= 122 THEN
        IF 10 + ch - 97 >= b THEN Throw("Digit out of range")
        ELSE Return(10 + ch - 97)
    ELSE IF ch = 32 THEN [kind |-> "continue"]
    ELSE Throw("Invalid digit")

RECURSIVE ParseLoop(_, _, _, _)
ParseLoop(s, p, b, res) ==
    IF p > Len(s) THEN Return(res)
    ELSE LET digit == DigitOf(s[p], b)
         IN IF digit.kind = "continue" THEN ParseLoop(s, p + 1, b, res)
            ELSE IF digit.kind = "throw" THEN digit
            ELSE ParseLoop(s, p + 1, b, res * b + digit.value)

parseInBase(s, b) == ParseLoop(toLowerCase(trim(s)), 1, b, 0)

-----------------------------------------------------------------------------
(* reconstructAtZero *)

(* Variant: one element too many *)
sliceOneMore(s, end) ==
    SubSeq(s, 1, IF end + 1 > Len(s) THEN Len(s) ELSE end + 1)

(* Array.prototype.slice(0, end): a negative end counts from the back *)
slice(s, end) ==
    LET relEnd == IF end < 0 THEN (IF Len(s) + end < 0 THEN 0 ELSE Len(s) + end)
                  ELSE (IF end > Len(s) THEN Len(s) ELSE end)
    IN SubSeq(s, 1, relEnd)

(* Variant: x_j is not negated *)
WeightStepNoNegate(n, d, xi, xj) ==
    LET n1 == n * xj
        d1 == d * (xi - xj)
        g == bigGcd(n1, d1)
    IN IF g > 1 THEN [num |-> BigDiv(n1, g), den |-> BigDiv(d1, g)]
       ELSE [num |-> n1, den |-> d1]

(* Variant: only den is divided by the gcd *)
WeightStepReduceDenOnly(n, d, xi, xj) ==
    LET n1 == n * (-xj)
        d1 == d * (xi - xj)
        g == bigGcd(n1, d1)
    IN IF g > 1 THEN [num |-> n1, den |-> BigDiv(d1, g)]
       ELSE [num |-> n1, den |-> d1]

(* One pass of the inner loop's body for an index j # i *)
WeightStep(n, d, xi, xj) ==
    LET n1 == n * (-xj)
        d1 == d * (xi - xj)
        g == bigGcd(n1, d1)
    IN IF g > 1 THEN [num |-> BigDiv(n1, g), den |-> BigDiv(d1, g)]
       ELSE [num |-> n1, den |-> d1]

RECURSIVE InnerLoop(_, _, _, _)
InnerLoop(Q, ii, jj, nd) ==
    IF jj >= Len(Q) THEN nd
    ELSE IF jj = ii THEN InnerLoop(Q, ii, jj + 1, nd)
    ELSE InnerLoop(Q, ii, jj + 1,
                   WeightStep(nd.num, nd.den, Q[ii + 1].x, Q[jj + 1].x))

(* The body of the outer loop after the weight: the term and the new sum,  *)
(* or the error of the Fraction constructor.                               *)
AddTerm(s, yi, n, d) ==
    LET term == Fraction(yi * n, d)
    IN IF term.kind = "throw" THEN term ELSE add(s, term)

RECURSIVE OuterLoop(_, _, _)
OuterLoop(Q, ii, s) ==
    IF ii >= Len(Q) THEN toBigIntExact(s)
    ELSE LET nd == InnerLoop(Q, ii, 0, [num |-> 1, den |-> 1])
             s1 == AddTerm(s, Q[ii + 1].y, nd.num, nd.den)
         IN IF s1.kind = "throw" THEN s1 ELSE OuterLoop(Q, ii + 1, s1)

reconstructAtZero(pts, kk) == OuterLoop(slice(pts, kk), 0, fromBigInt(0))

-----------------------------------------------------------------------------
(* pointsFromJson *)

(* BigInt(key) for a key of decimal digits; any other key is a SyntaxError *)
RECURSIVE DecimalLoop(_, _, _)
DecimalLoop(s, p, res) ==
    IF p > Len(s) THEN Return(res)
    ELSE IF s[p] >= 48 /\ s[p] <= 57
         THEN DecimalLoop(s, p + 1, res * 10 + (s[p] - 48))
         ELSE Throw("SyntaxError")

BigInt(key) == DecimalLoop(key, 1, 0)

(* Number(val.base) for a base written in decimal digits, as a string or   *)
(* as a number                                                             *)
Number(b) == DecimalLoop(b, 1, 0).value

(* Object.entries lists the array-index keys (decimal, no leading zero) in *)
(* ascending numeric order, then the other keys in insertion order.        *)
IsIndexKey(key) ==
    /\ key # <<>>
    /\ \A p \in 1..Len(key) : key[p] >= 48 /\ key[p] <= 57
    /\ (Len(key) > 1 => key[1] # 48)

RECURSIVE InsertByKey(_, _)
InsertByKey(s, e) ==
    IF s = <<>> THEN <<e>>
    ELSE IF BigInt(e.key).value < BigInt(Head(s).key).value THEN <<e>> \o s
    ELSE <<Head(s)>> \o InsertByKey(Tail(s), e)

RECURSIVE IndexKeysAscending(_, _)
IndexKeysAscending(s, acc) ==
    IF s = <<>> THEN acc
    ELSE IndexKeysAscending(Tail(s),
            IF IsIndexKey(Head(s).key) THEN InsertByKey(acc, Head(s)) ELSE acc)

OtherKey(e) == ~IsIndexKey(e.key)

ObjectEntries(recs) ==
    IndexKeysAscending(recs, <<>>) \o SelectSeq(recs, OtherKey)

(* The map callback: one entry to one point, or the error thrown *)
ToPoint(e) ==
    LET x == BigInt(e.key)
        y == parseInBase(e.val.value, Number(e.val.base))
    IN IF x.kind = "throw" THEN x
       ELSE IF y.kind = "throw" THEN y
       ELSE [kind |-> "return", x |-> x.value, y |-> y.value]

RECURSIVE MapEntries(_, _)
MapEntries(es, acc) ==
    IF es = <<>> THEN [kind |-> "return", points |-> acc]
    ELSE LET pt == ToPoint(Head(es))
         IN IF pt.kind = "throw" THEN pt
            ELSE MapEntries(Tail(es), Append(acc, [x |-> pt.x, y |-> pt.y]))

(* entries.sort with the comparator of line 72; the sort is stable *)
compare(a, b) == IF a.x < b.x THEN -1 ELSE IF a.x > b.x THEN 1 ELSE 0

RECURSIVE InsertSorted(_, _)
InsertSorted(s, e) ==
    IF s = <<>> THEN <<e>>
    ELSE IF compare(e, Head(s)) < 0 THEN <<e>> \o s
    ELSE <<Head(s)>> \o InsertSorted(Tail(s), e)

RECURSIVE SortLoop(_, _)
SortLoop(s, acc) ==
    IF s = <<>> THEN acc ELSE SortLoop(Tail(s), InsertSorted(acc, Head(s)))

(* Variant: the entries are left in the order of Object.entries *)
sortNothing(s) == s

sort(s) == SortLoop(s, <<>>)

pointsFromJson(o) ==
    LET entries == MapEntries(ObjectEntries(o.recs), <<>>)
    IN IF entries.kind = "throw" THEN entries
       ELSE [kind |-> "return", k |-> o.keys.k, points |-> sort(entries.points)]

-----------------------------------------------------------------------------
(* main.  The input is the parsed JSON text: Empty for an empty input, or *)
(* the object with its "keys" entry and its other entries in the order of  *)
(* the text.  A text that is no JSON, or an object without "keys", ends    *)
(* main with an exception before any point is built and is left out.      *)

Line(text, args) == [text |-> text, args |-> args]

InsufficientMessage(kk, len) ==
    Line("Error: Interpolation requires ${k} points, but only ${points.length} were provided.",
         <<kk, len>>)

Report(kk, secret) ==
    << Line("--- Processing: Test Case ---", <<>>),
       Line("Polynomial degree m = k-1 = ${polynomialDegree}", <<kk - 1>>),
       Line("Using ${k} points for interpolation.", <<kk>>),
       Line("", <<>>),
       Line("--- RESULT ---", <<>>),
       Line("The constant term 'c' is: ${secret.toString()}", <<secret>>),
       Line("--------------", <<>>) >>

(* Variant: exactly k points are refused too *)
TooFewOrEqual(len, kk) == len <= kk

TooFew(len, kk) == len < kk

(* Lines 107-112: read the input and build the points *)
Ingest ==
    /\ pc = "main"
    /\ IF obj = Empty
       THEN pc' = "exit" /\ UNCHANGED <<points, k, outcome>>
       ELSE LET r == pointsFromJson(obj)
            IN IF r.kind = "throw"
               THEN pc' = "uncaught" /\ outcome' = r /\ UNCHANGED <<points, k>>
               ELSE pc' = "guard" /\ points' = r.points /\ k' = r.k
                    /\ UNCHANGED outcome
    /\ UNCHANGED <<obj, stdout, stderr, P, i, j, num, den, sum,
                   fa, fb, fr, str, base, f>>

(* Lines 115-118 *)
Guard ==
    /\ pc = "guard"
    /\ IF TooFew(Len(points), k)
       THEN stderr' = Append(stderr, InsufficientMessage(k, Len(points)))
            /\ pc' = "exit"
       ELSE pc' = "call" /\ UNCHANGED stderr
    /\ UNCHANGED <<obj, points, k, outcome, stdout, P, i, j, num, den, sum,
                   fa, fb, fr, str, base, f>>

(* Line 121 *)
Call ==
    /\ pc = "call"
    /\ outcome' = reconstructAtZero(points, k)
    /\ pc' = IF outcome'.kind = "throw" THEN "uncaught" ELSE "print"
    /\ UNCHANGED <<obj, points, k, stdout, stderr, P, i, j, num, den, sum,
                   fa, fb, fr, str, base, f>>

(* Lines 124-130 *)
Output ==
    /\ pc = "print"
    /\ stdout' = stdout \o Report(k, outcome.value)
    /\ pc' = "exit"
    /\ UNCHANGED <<obj, points, k, outcome, stderr, P, i, j, num, den, sum,
                   fa, fb, fr, str, base, f>>

MaxRecs == 3

(* "1", "2", "3", "01" *)
KeyStrs == {<<49>>, <<50>>, <<51>>, <<48, 49>>}
(* "1", "a", "#" *)
ValueStrs == {<<49>>, <<97>>, <<35>>}
(* "2", "16" *)
BaseStrs == {<<50>>, <<49, 54>>}
Records == [key : KeyStrs, val : [value : ValueStrs, base : BaseStrs]]

DistinctKeys(s) == \A p, q \in 1..Len(s) : p # q => s[p].key # s[q].key

RecordLists ==
    {s \in UNION {[1..n -> Records] : n \in 0..MaxRecs} : DistinctKeys(s)}

Init ==
    /\ pc = "main"
    /\ \/ obj = Empty
       \/ \E recs \in RecordLists, kk \in (-1)..(MaxRecs + 1) :
             \E n \in {Len(recs), MaxRecs + 1} :
                obj = [keys |-> [n |-> n, k |-> kk], recs |-> recs]
    /\ points = <<>> /\ k = 0 /\ outcome = None
    /\ stdout = <<>> /\ stderr = <<>>
    /\ LoopIdle /\ FracIdle /\ ParseIdle /\ f = <<>>

Next == Ingest \/ Guard \/ Call \/ Output

Spec == Init /\ [][Next]_vars

-----------------------------------------------------------------------------
(* Inputs of a direct call of reconstructAtZero *)

MaxPts == 3
MaxX == 3
MaxY == 1
MaxCoef == 1

XVals == (-1)..MaxX
YVals == (-1)..MaxY
Points == [x : XVals, y : YVals]
KVals == (-1)..(MaxPts + 1)

IsSorted(s) == \A p \in 1..(Len(s) - 1) : s[p].x <= s[p + 1].x
DistinctX(s) == \A p, q \in 1..Len(s) : p # q => s[p].x # s[q].x

PointLists == {s \in UNION {[1..n -> Points] : n \in 0..MaxPts} : IsSorted(s)}

(* Polynomials of degree at most 2 and their samples at ascending x;       *)
(* <<5, 3, 2>> is 2x^2 + 3x + 5.                                           *)
Coefs == [1..3 -> (-MaxCoef)..MaxCoef] \cup {<<5, 3, 2>>}

RECURSIVE Horner(_, _, _)
Horner(c, x, n) == IF n > Len(c) THEN 0 ELSE c[n] + x * Horner(c, x, n + 1)

Eval(c, x) == Horner(c, x, 1)

Deg(c) == IF c[3] # 0 THEN 2 ELSE IF c[2] # 0 THEN 1 ELSE 0

RECURSIVE Ascending(_)
Ascending(S) ==
    IF S = {} THEN <<>>
    ELSE LET m == CHOOSE a \in S : \A b \in S : a <= b
         IN <<m>> \o Ascending(S \ {m})

Samples(c, S) ==
    LET xs == Ascending(S) IN [p \in 1..Len(xs) |-> [x |-> xs[p], y |-> Eval(c, xs[p])]]


InitRecon ==
    /\ pc = "direct"
    /\ \/ f = <<>> /\ points \in PointLists
       \/ f \in Coefs /\ \E S \in SUBSET XVals : points = Samples(f, S)
    /\ k \in KVals
    /\ outcome = None
    /\ MainIdle /\ LoopIdle /\ FracIdle /\ ParseIdle

(* reconstructAtZero(points, k), called on its own *)
CallReconstruct ==
    /\ pc = "direct"
    /\ outcome' = reconstructAtZero(points, k)
    /\ pc' = "returned"
    /\ UNCHANGED <<obj, points, k, stdout, stderr, P, i, j, num, den, sum,
                   fa, fb, fr, str, base, f>>

NextRecon == CallReconstruct

SpecRecon == InitRecon /\ [][NextRecon]_vars

(* main, or a direct call *)
InitCalls == Init \/ InitRecon

NextCalls == Next \/ NextRecon

SpecCalls == InitCalls /\ [][NextCalls]_vars

-----------------------------------------------------------------------------
(* Fraction objects: construction, add, mul, and sum = sum.add(term) *)

MaxN == 4

InitFrac ==
    /\ pc = "frac"
    /\ fa = fromBigInt(0) /\ fb = None /\ fr = None
    /\ outcome = None
    /\ obj = Empty /\ points = <<>> /\ k = 0 /\ stdout = <<>> /\ stderr = <<>>
    /\ LoopIdle /\ ParseIdle /\ f = <<>>

(* new Fraction(n, d) *)
New ==
    /\ pc = "frac"
    /\ \E n \in (-MaxN)..MaxN, d \in (-MaxN)..MaxN :
          LET r == Fraction(n, d)
          IN IF r.kind = "throw"
             THEN outcome' = r /\ UNCHANGED fb
             ELSE fb' = r /\ outcome' = None
    /\ UNCHANGED <<pc, obj, points, k, stdout, stderr, P, i, j, num, den, sum,
                   fa, fr, str, base, f>>

Small(x) == Abs(x.n) <= MaxN /\ x.d <= MaxN

(* fa.add(fb) *)
Add ==
    /\ pc = "frac" /\ fb # None
    /\ Small(add(fa, fb))
    /\ fr' = add(fa, fb)
    /\ UNCHANGED <<pc, obj, points, k, outcome, stdout, stderr,
                   P, i, j, num, den, sum, fa, fb, str, base, f>>

(* fa.mul(fb) *)
Mul ==
    /\ pc = "frac" /\ fb # None
    /\ Small(mul(fa, fb))
    /\ fr' = mul(fa, fb)
    /\ UNCHANGED <<pc, obj, points, k, outcome, stdout, stderr,
                   P, i, j, num, den, sum, fa, fb, str, base, f>>

(* the variable holding fa is bound to the new object *)
Rebind ==
    /\ pc = "frac" /\ fr # None
    /\ fa' = fr
    /\ UNCHANGED <<pc, obj, points, k, outcome, stdout, stderr,
                   P, i, j, num, den, sum, fb, fr, str, base, f>>

NextFrac == New \/ Add \/ Mul \/ Rebind

SpecFrac == InitFrac /\ [][NextFrac]_vars

-----------------------------------------------------------------------------
(* A direct call of parseInBase *)

MaxLen == 3

(* '0' '1' '9' 'a' 'f' 'g' 'z' 'A' 'F' ' ' tab '#' *)
Alphabet == {48, 49, 57, 97, 102, 103, 122, 65, 70, 32, 9, 35}
Strings == UNION {[1..n -> Alphabet] : n \in 0..MaxLen}
Bases == 2..36

InitParse ==
    /\ pc = "parse"
    /\ str \in Strings /\ base \in Bases
    /\ outcome = None
    /\ obj = Empty /\ points = <<>> /\ k = 0 /\ stdout = <<>> /\ stderr = <<>>
    /\ LoopIdle /\ FracIdle /\ f = <<>>

CallParse ==
    /\ pc = "parse"
    /\ outcome' = parseInBase(str, base)
    /\ pc' = "parsed"
    /\ UNCHANGED <<obj, points, k, stdout, stderr, P, i, j, num, den, sum,
                   fa, fb, fr, str, base, f>>

NextParse == CallParse

SpecParse == InitParse /\ [][NextParse]_vars

-----------------------------------------------------------------------------
(* reconstructAtZero step by step: one action per loop test or loop body *)

InitLoop ==
    /\ pc = "slice"
    /\ f = <<>> /\ points \in PointLists
    /\ k \in KVals
    /\ outcome = None
    /\ MainIdle /\ LoopIdle /\ FracIdle /\ ParseIdle

Slice ==
    /\ pc = "slice"
    /\ P' = slice(points, k)
    /\ sum' = fromBigInt(0)
    /\ i' = 0
    /\ pc' = "outer"
    /\ UNCHANGED <<obj, points, k, outcome, stdout, stderr, j, num, den,
                   fa, fb, fr, str, base, f>>

OuterTest ==
    /\ pc = "outer"
    /\ IF i < Len(P)
       THEN num' = 1 /\ den' = 1 /\ j' = 0 /\ pc' = "inner"
       ELSE pc' = "exact" /\ UNCHANGED <<num, den, j>>
    /\ UNCHANGED <<obj, points, k, outcome, stdout, stderr, P, i, sum,
                   fa, fb, fr, str, base, f>>

(* Variant: the loop skips the points with the x of point i, not index i *)
InnerStepSkipEqualX ==
    /\ pc = "inner"
    /\ j < Len(P)
    /\ IF P[j + 1].x = P[i + 1].x
       THEN UNCHANGED <<num, den>>
       ELSE LET nd == WeightStep(num, den, P[i + 1].x, P[j + 1].x)
            IN num' = nd.num /\ den' = nd.den
    /\ j' = j + 1
    /\ UNCHANGED <<pc, obj, points, k, outcome, stdout, stderr, P, i, sum,
                   fa, fb, fr, str, base, f>>

InnerStep ==
    /\ pc = "inner"
    /\ j < Len(P)
    /\ IF j = i
       THEN UNCHANGED <<num, den>>
       ELSE LET nd == WeightStep(num, den, P[i + 1].x, P[j + 1].x)
            IN num' = nd.num /\ den' = nd.den
    /\ j' = j + 1
    /\ UNCHANGED <<pc, obj, points, k, outcome, stdout, stderr, P, i, sum,
                   fa, fb, fr, str, base, f>>

Term ==
    /\ pc = "inner"
    /\ j >= Len(P)
    /\ LET s1 == AddTerm(sum, P[i + 1].y, num, den)
       IN IF s1.kind = "throw"
          THEN outcome' = s1 /\ pc' = "done" /\ UNCHANGED <<sum, i>>
          ELSE sum' = s1 /\ i' = i + 1 /\ pc' = "outer" /\ UNCHANGED outcome
    /\ UNCHANGED <<obj, points, k, stdout, stderr, P, j, num, den,
                   fa, fb, fr, str, base, f>>

Exact ==
    /\ pc = "exact"
    /\ outcome' = toBigIntExact(sum)
    /\ pc' = "done"
    /\ UNCHANGED <<obj, points, k, stdout, stderr, P, i, j, num, den, sum,
                   fa, fb, fr, str, base, f>>

NextLoop == Slice \/ OuterTest \/ InnerStep \/ Term \/ Exact

SpecLoop == InitLoop /\ [][NextLoop]_vars

-----------------------------------------------------------------------------
(* The points of s at the positions of S, in order *)
Pick(s, S) == LET ix == Ascending(S) IN [p \in 1..Len(ix) |-> s[ix[p]]]

(* C1: sampled from a polynomial of degree d at distinct x, with k >= d + 1 *)
(* and at least k samples, the call returns the constant term.             *)
RoundTrip ==
    (pc = "returned" /\ f # <<>> /\ k >= Deg(f) + 1 /\ Len(points) >= k)
        => outcome = Return(f[1])

RoundTripWitness ==
    /\ pc = "returned" /\ f = <<5, 3, 2>> /\ k = 3
    /\ points = <<[x |-> 1, y |-> 10], [x |-> 2, y |-> 19], [x |-> 3, y |-> 32]>>
    /\ outcome = Return(5)

(* The first k points (k >= 0), as the claims speak of them *)
FirstK(s, n) == SubSeq(s, 1, IF n < Len(s) THEN n ELSE Len(s))

(* The Lagrange sum of Q at 0 over the common denominator CommonDen(Q):    *)
(* sum_p y_p * prod_{q # p} (-x_q) / prod_{q # p} (x_p - x_q)              *)
RECURSIVE NumProd(_, _, _)
NumProd(Q, p, q) ==
    IF q = 0 THEN 1
    ELSE (IF q = p THEN 1 ELSE -Q[q].x) * NumProd(Q, p, q - 1)

RECURSIVE DenProd(_, _, _)
DenProd(Q, p, q) ==
    IF q = 0 THEN 1
    ELSE (IF q = p THEN 1 ELSE Q[p].x - Q[q].x) * DenProd(Q, p, q - 1)

RECURSIVE OtherDens(_, _, _)
OtherDens(Q, p, m) ==
    IF m = 0 THEN 1
    ELSE (IF m = p THEN 1 ELSE DenProd(Q, m, Len(Q))) * OtherDens(Q, p, m - 1)

CommonDen(Q) == OtherDens(Q, 0, Len(Q))

RECURSIVE SumNum(_, _)
SumNum(Q, p) ==
    IF p = 0 THEN 0
    ELSE Q[p].y * NumProd(Q, p, Len(Q)) * OtherDens(Q, p, Len(Q))
         + SumNum(Q, p - 1)

(* C4: toBigIntExact returns the quotient of the final sum when d divides  *)
(* n and throws "Non-integer result" when it does not; so on points with   *)
(* distinct x the call returns the Lagrange sum when that is an integer    *)
(* and throws when it is not, and never returns a rounded value.           *)
ExactnessGate ==
    /\ (pc = "done" /\ i >= Len(P))
         => IF sum.n % sum.d = 0
            THEN outcome.kind = "return" /\ outcome.value * sum.d = sum.n
            ELSE outcome = Throw("Non-integer result")
    /\ (pc = "done" /\ k >= 0 /\ DistinctX(FirstK(points, k)))
         => LET Q == FirstK(points, k)
                N == IF CommonDen(Q) > 0 THEN SumNum(Q, Len(Q))
                     ELSE -SumNum(Q, Len(Q))
                D == IF CommonDen(Q) > 0 THEN CommonDen(Q) ELSE -CommonDen(Q)
            IN IF N % D = 0 THEN outcome = Return(N \div D)
               ELSE outcome = Throw("Non-integer result")

ExactnessGateWitness ==
    /\ pc = "done" /\ k = 2
    /\ points = <<[x |-> -1, y |-> 0], [x |-> 2, y |-> 1], [x |-> 3, y |-> 1]>>
    /\ sum = Fraction(1, 3) /\ sum.d = 3
    /\ outcome = Throw("Non-integer result")

(* C7: with k >= 1 and at least k points the outcome is that of the first  *)
(* k points alone; and of points sampled from a polynomial of degree at    *)
(* most k - 1 every choice of k points returns the constant term.          *)
ThresholdSubsetting ==
    (pc = "returned" /\ k >= 1 /\ Len(points) >= k)
        => /\ outcome = reconstructAtZero(SubSeq(points, 1, k), k)
           /\ (f # <<>> /\ Deg(f) <= k - 1)
                => \A S \in SUBSET (1..Len(points)) :
                      Cardinality(S) = k
                          => reconstructAtZero(Pick(points, S), k) = Return(f[1])

ThresholdSubsettingWitness ==
    /\ pc = "returned" /\ k = 3 /\ Len(points) = 5
    /\ f # <<>> /\ Deg(f) = 2 /\ f[1] # 0
    /\ outcome = Return(f[1])

(* C3: two of the first k points with the same x make the call throw       *)
(* "Zero denominator"; once the inner loop has passed a point with the x   *)
(* of point i, den is 0 and stays 0 through the reduction.                 *)
DuplicateX ==
    /\ (pc = "done" /\ k >= 0
          /\ \E p, q \in 1..Len(FirstK(points, k)) :
                p # q /\ points[p].x = points[q].x)
         => outcome = Throw("Zero denominator")
    /\ (pc = "inner" /\ \E q \in 1..j : q # i + 1 /\ P[q].x = P[i + 1].x)
         => den = 0

DuplicateXWitness ==
    /\ pc = "done" /\ k = 3 /\ Len(points) = 3
    /\ points[1].x = 0 /\ points[2].x = 2 /\ points[3].x = 2
    /\ i = 1 /\ num = 0 /\ den = 0
    /\ outcome = Throw("Zero denominator")

(* The same algorithm with the reduction step left out *)
RECURSIVE PlainInner(_, _, _, _)
PlainInner(Q, ii, jj, nd) ==
    IF jj >= Len(Q) THEN nd
    ELSE IF jj = ii THEN PlainInner(Q, ii, jj + 1, nd)
    ELSE PlainInner(Q, ii, jj + 1,
                    [num |-> nd.num * (-Q[jj + 1].x),
                     den |-> nd.den * (Q[ii + 1].x - Q[jj + 1].x)])

RECURSIVE PlainOuter(_, _, _)
PlainOuter(Q, ii, s) ==
    IF ii >= Len(Q) THEN toBigIntExact(s)
    ELSE LET nd == PlainInner(Q, ii, 0, [num |-> 1, den |-> 1])
             term == Fraction(Q[ii + 1].y * nd.num, nd.den)
         IN IF term.kind = "throw" THEN term
            ELSE PlainOuter(Q, ii + 1, add(s, term))

(* C9: the call ends as the algorithm without the reduction step ends, and *)
(* inside the inner loop num/den is the product of (-x_j)/(x_i - x_j) over *)
(* the j done so far (cross-multiplied; den is 0 exactly when the product  *)
(* of the differences is).                                                 *)
ReductionIsTransparent ==
    /\ pc = "done" => outcome = PlainOuter(slice(points, k), 0, fromBigInt(0))
    /\ pc = "inner"
         => /\ num * DenProd(P, i + 1, j) = NumProd(P, i + 1, j) * den
            /\ (den = 0) = (DenProd(P, i + 1, j) = 0)

ReductionIsTransparentWitness ==
    /\ pc = "inner" /\ i = 0 /\ j = 3 /\ Len(P) = 3
    /\ P[1].x = 1 /\ P[2].x = 2 /\ P[3].x = 3
    /\ NumProd(P, 1, 3) = 6 /\ DenProd(P, 1, 3) = 2
    /\ num = 3 /\ den = 1

(* The step-by-step run ends as the operator reconstructAtZero says *)
StepwiseAgrees ==
    pc = "done" => outcome = reconstructAtZero(points, k)

-----------------------------------------------------------------------------
(* d > 0 and no divisor above 1 common to n and d *)
Normalized(x) ==
    x # None
        => /\ x.d > 0
           /\ \A g \in 2..x.d : ~(x.n % g = 0 /\ x.d % g = 0)

(* C2: every Fraction object has d > 0 and no common divisor of n and d    *)
(* above 1 (so a zero is 0/1), and add and mul leave their operands as     *)
(* they were.                                                              *)
FractionNormalized ==
    /\ [](Normalized(fa) /\ Normalized(fb) /\ Normalized(fr))
    /\ [][(Add \/ Mul) => (fa' = fa /\ fb' = fb)]_vars

FractionNormalizedWitness ==
    /\ pc = "frac"
    /\ fa = Fraction(0, 5) /\ fa.n = 0 /\ fa.d = 1
    /\ fb = Fraction(4, -8) /\ fb.n = -1 /\ fb.d = 2
    /\ fr = mul(fb, fb) /\ fr.n = 1 /\ fr.d = 4

-----------------------------------------------------------------------------
(* What the claims say of a digit string, read off the characters          *)

IsDigitChar(ch) ==
    (ch >= 48 /\ ch <= 57) \/ (ch >= 97 /\ ch <= 122) \/ (ch >= 65 /\ ch <= 90)

ValueOf(ch) ==
    IF ch <= 57 THEN ch - 48 ELSE IF ch >= 97 THEN ch - 87 ELSE ch - 55

(* Whitespace that trim removes: nothing but whitespace before or after it *)
Trimmed(s, p) ==
    /\ IsWhiteSpace(s[p])
    /\ \/ \A q \in 1..p : IsWhiteSpace(s[q])
       \/ \A q \in p..Len(s) : IsWhiteSpace(s[q])

InvalidAt(s, p) == ~IsDigitChar(s[p]) /\ s[p] # 32 /\ ~Trimmed(s, p)
OutOfRangeAt(s, b, p) == IsDigitChar(s[p]) /\ ValueOf(s[p]) >= b
Offending(s, b) == {p \in 1..Len(s) : InvalidAt(s, p) \/ OutOfRangeAt(s, b, p)}

RECURSIVE Pow(_, _)
Pow(b, e) == IF e = 0 THEN 1 ELSE b * Pow(b, e - 1)

RECURSIVE Positional(_, _, _)
Positional(ds, b, p) ==
    IF p > Len(ds) THEN 0
    ELSE ValueOf(ds[p]) * Pow(b, Len(ds) - p) + Positional(ds, b, p + 1)

(* C5: a string of digits below the base, spaces and trimmed whitespace    *)
(* decodes to the positional value of its digits, most significant first.  *)
DecodeCorrect ==
    (pc = "parsed" /\ Offending(str, base) = {})
        => /\ outcome = Return(Positional(SelectSeq(str, IsDigitChar), base, 1))
           /\ outcome.value >= 0

DecodeCorrectWitness ==
    /\ pc = "parsed" /\ str = <<102, 102>> /\ base = 16
    /\ outcome = Return(255)

(* C6: the leftmost offending character decides the error, and nothing is  *)
(* returned.                                                               *)
DecodeErrors ==
    (pc = "parsed" /\ Offending(str, base) # {})
        => LET p == CHOOSE q \in Offending(str, base) :
                        \A r \in Offending(str, base) : q <= r
           IN outcome = IF InvalidAt(str, p) THEN Throw("Invalid digit")
                        ELSE Throw("Digit out of range")

DecodeErrorsWitness ==
    /\ pc = "parsed" /\ str = <<49, 103, 35>> /\ base = 16
    /\ outcome = Throw("Digit out of range")

-----------------------------------------------------------------------------
(* C8: a run of main with fewer than k records prints the error and        *)
(* nothing else and never calls reconstructAtZero; at the call the points  *)
(* are sorted by x and there are at least k of them.                       *)
InsufficientPoints ==
    /\ pc = "call" => (IsSorted(points) /\ Len(points) >= k)
    /\ (obj # Empty /\ Len(obj.recs) < obj.keys.k
          /\ pointsFromJson(obj).kind = "return")
         => /\ pc \in {"main", "guard", "exit"}
            /\ outcome = None
            /\ stdout = <<>>
            /\ pc = "exit"
                 => stderr = <<InsufficientMessage(obj.keys.k, Len(obj.recs))>>

InsufficientPointsWitness ==
    /\ pc = "exit" /\ obj # Empty
    /\ Len(obj.recs) = 2 /\ obj.keys.k = 3 /\ obj.keys.n = 4
    /\ Len(points) = 2
    /\ stderr = <<InsufficientMessage(3, 2)>> /\ stdout = <<>>

(* C10: a direct call with fewer than k points ends as the call on all the *)
(* points with k set to their number, with no error of its own; with k = 0 *)
(* or no points it returns 0; and main with k = 0 prints the result 0.     *)
NoThresholdSignal ==
    /\ (pc = "returned" /\ k > Len(points))
         => /\ outcome = reconstructAtZero(points, Len(points))
            /\ outcome.kind = "throw"
                 => outcome.error \in {"Zero denominator", "Non-integer result"}
    /\ (pc = "returned" /\ (k = 0 \/ points = <<>>)) => outcome = Return(0)
    /\ (pc = "exit" /\ obj # Empty /\ obj.keys.k = 0
          /\ pointsFromJson(obj).kind = "return")
         => (stdout = Report(0, 0) /\ stderr = <<>>)

NoThresholdSignalWitness ==
    /\ pc = "exit" /\ obj # Empty /\ obj.keys.k = 0
    /\ Len(points) = 2 /\ stdout = Report(0, 0)

NoThresholdSignalDirectWitness ==
    /\ pc = "returned" /\ k = 3 /\ Len(points) = 2
    /\ points[1].x # points[2].x /\ outcome.kind = "return" /\ outcome.value # 0

====
